---- MODULE Spec2Model ----
(***************************************************************************)
(* A model of the sudoku board module (sudokuBoard.c): construction of a   *)
(* board from a clue string, single-cell mutation and the legality         *)
(* functions for rows, columns, 3x3 squares, cells and the whole board.    *)
(*                                                                         *)
(* Characters are ASCII codes.  A C string is the sequence of its          *)
(* characters before the terminator, so C index i is element i + 1.        *)
(* A board is a function [row][col] over 0..8, or NULL.                    *)
(* Memory allocation is taken to succeed and pointers to be 8 bytes wide   *)
(* (calloc(BOARDSIZE, __SIZEOF_POINTER__) then holds 9 Cells of 8 bytes).  *)
(***************************************************************************)
EXTENDS Integers, Sequences, FiniteSets, TLC

VARIABLES board, clues, stderr, last, old, moves, pc, stillPlaying

vars == << board, clues, stderr, last, old, moves, pc, stillPlaying >>

BOARDSIZE == 9

\* The number of setCellVal calls explored after construction.
MaxMoves == 1

NULL == << >>

Idx == 0 .. (BOARDSIZE - 1)

\* Arguments handed to the operations: both neighbours of each end of the
\* legal range and cells of four different squares.
Coords == {-1, 0, 1, 8, 9}
Vals == {0, 1, 9, 10}

\* Contents of memory the program reads without having written it.
JunkBytes == {0, 53, 97}
JunkInts == {-1, 0, 7}

(***************************************************************************)
(* Characters and clue strings.                                            *)
(***************************************************************************)
isdigit(c) == c \in 48 .. 57

isspace(c) == c = 32 \/ c \in 9 .. 13

strlen(str) == Len(str)

\* The string of n digits whose i-th character (from 0) is (a*i + b) mod 10.
MkStr(n, a, b) == [i \in 1 .. n |-> 48 + ((a * (i - 1) + b) % 10)]

Poke(str, i, c) == [str EXCEPT ![i + 1] = c]

Zeros81 == MkStr(81, 0, 0)

\* Strings of 81 digits: the empty puzzle; 81 fives; the digits in turn
\* (every row and column free of repeats, the squares not); a repeat inside
\* the first square only, off its corner; a repeat in row 0 only; a repeat in
\* column 8 only; a puzzle without repeats.
ValidClues ==
    { Zeros81,
      MkStr(81, 0, 5),
      MkStr(81, 1, 0),
      Poke(Poke(Zeros81, 1, 53), 9, 53),
      Poke(Poke(Zeros81, 1, 55), 8, 55),
      Poke(Poke(Poke(Zeros81, 8, 57), 72, 49), 80, 57),
      Poke(Poke(Poke(Zeros81, 0, 53), 10, 51), 40, 55) }

\* Strings initSetBoard must refuse: wrong lengths with and without
\* non-digits, and 81 characters with one or two non-digits.
BadLengthClues ==
    { << >>,
      MkStr(80, 1, 0),
      MkStr(82, 0, 3),
      Poke(MkStr(80, 1, 0), 5, 97),
      Poke(MkStr(82, 0, 3), 0, 32) }

BadCharClues ==
    { Poke(MkStr(81, 1, 0), 0, 97),
      Poke(Zeros81, 80, 47),
      Poke(Poke(MkStr(81, 0, 5), 30, 58), 60, 120),
      Poke(Poke(Zeros81, 17, 32), 16, 45) }

ClueStrings == ValidClues \cup BadLengthClues \cup BadCharClues

(***************************************************************************)
(* Diagnostics: what a call wrote to the standard error stream.            *)
(***************************************************************************)
NoOutput == [fmt |-> "", c |-> 0]

ErrInvalidClues == [fmt |-> "Invalid clues string\n", c |-> 0]

ErrNonNumeric(c) ==
    [fmt |-> "The given clue sequence contains the non-numeric char %c\n",
     c |-> c]

ErrNotInitialized ==
    [fmt |-> "The given board is not initialized\n", c |-> 0]

(***************************************************************************)
(* Construction.                                                           *)
(***************************************************************************)
\* initBoard storing 1 where it is to store 0: the new board has no empty
\* cell.
initBoard_Ones ==
    [i \in Idx |-> [j \in Idx |-> [value |-> 1, clue |-> FALSE]]]

initBoard ==
    [i \in Idx |-> [j \in Idx |-> [value |-> 0, clue |-> FALSE]]]

\* The address of board[row][col]: the pair of indices, or NULL.
getCell(row, col, b) ==
    IF row < 0 \/ row >= BOARDSIZE \/ col < 0 \/ col >= BOARDSIZE \/ b = NULL
    THEN NULL
    ELSE << row, col >>

\* The cell a non-NULL result of getCell points to.
Deref(b, p) == b[p[1]][p[2]]

\* The buffer of len*2+1 bytes: the characters of str at the even offsets,
\* a blank after each, and a last byte (offset len*2) that is never written.
\* The terminator is stored at strlen(newStr)+1, beyond this buffer.
convertToWSStr(str, junk) ==
    LET len == strlen(str)
    IN  [k \in 1 .. (len * 2 + 1) |->
            IF k = len * 2 + 1 THEN junk
            ELSE IF k % 2 = 1 THEN str[(k + 1) \div 2]
            ELSE 32]

\* The run of decimal digits of s from offset i on, as a number; -1 if none.
RECURSIVE ReadDigits(_, _, _)
ReadDigits(s, i, acc) ==
    IF i + 1 <= Len(s) /\ isdigit(s[i + 1])
    THEN ReadDigits(s, i + 1, (IF acc < 0 THEN 0 ELSE acc) * 10 + (s[i + 1] - 48))
    ELSE acc

RECURSIVE SkipSpace(_, _)
SkipSpace(s, i) ==
    IF i + 1 <= Len(s) /\ isspace(s[i + 1]) THEN SkipSpace(s, i + 1) ELSE i

\* sscanf(&s[loc], "%d", &cellVal): n is the number of items assigned and
\* val the number stored in cellVal when n = 1.
sscanf(s, loc) ==
    LET start == SkipSpace(s, loc)
        neg == start + 1 <= Len(s) /\ s[start + 1] = 45
        sgn == start + 1 <= Len(s) /\ s[start + 1] \in {43, 45}
        d == ReadDigits(s, IF sgn THEN start + 1 ELSE start, -1)
    IN  IF d < 0 THEN [n |-> 0, val |-> 0]
        ELSE [n |-> 1, val |-> IF neg THEN 0 - d ELSE d]

\* cellVal after the sscanf of the k-th cell (row-major, loc = 2*k): the
\* number read by the latest sscanf so far that assigned one, else the value
\* the uninitialised variable started with.
CellValAt(newClues, k, cellVal0) ==
    LET assigned == {j \in 0 .. k : sscanf(newClues, 2 * j).n = 1}
    IN  IF assigned = {} THEN cellVal0
        ELSE sscanf(newClues,
                    2 * (CHOOSE j \in assigned : \A m \in assigned : m <= j)).val

\* FillBoard with the test written cellVal >= 0: a '0' is stored as a clue.
FillBoard_ZeroIsClue(newClues, cellVal0, b) ==
    [row \in Idx |-> [col \in Idx |->
        LET curCell == getCell(row, col, b)
            cellVal == CellValAt(newClues, row * BOARDSIZE + col, cellVal0)
        IN  IF cellVal >= 0
            THEN [value |-> cellVal, clue |-> TRUE]
            ELSE Deref(b, curCell)]]

\* The board after the filling loops of initSetBoard.
FillBoard(newClues, cellVal0, b) ==
    [row \in Idx |-> [col \in Idx |->
        LET curCell == getCell(row, col, b)
            cellVal == CellValAt(newClues, row * BOARDSIZE + col, cellVal0)
        IN  IF cellVal > 0
            THEN [value |-> cellVal, clue |-> TRUE]
            ELSE Deref(b, curCell)]]

\* The offsets of str holding a non-digit.
NonDigits(str) == {i \in 0 .. (strlen(str) - 1) : ~ isdigit(str[i + 1])}

\* initSetBoard with the two checks swapped: the characters are examined
\* before the length.
initSetBoard_CharsFirst(str, junk, cellVal0) ==
    LET len == strlen(str)
        bad == NonDigits(str)
    IN  IF bad # {}
        THEN [ret |-> NULL,
              stderr |-> ErrNonNumeric(
                  str[(CHOOSE i \in bad : \A m \in bad : i <= m) + 1])]
        ELSE IF len # 81
        THEN [ret |-> NULL, stderr |-> ErrInvalidClues]
        ELSE [ret |-> FillBoard(convertToWSStr(str, junk), cellVal0, initBoard),
              stderr |-> NoOutput]

initSetBoard(str, junk, cellVal0) ==
    LET len == strlen(str)
        bad == NonDigits(str)
    IN  IF len # 81
        THEN [ret |-> NULL, stderr |-> ErrInvalidClues]
        ELSE IF bad # {}
        THEN [ret |-> NULL,
              stderr |-> ErrNonNumeric(
                  str[(CHOOSE i \in bad : \A m \in bad : i <= m) + 1])]
        ELSE [ret |-> FillBoard(convertToWSStr(str, junk), cellVal0, initBoard),
              stderr |-> NoOutput]

(***************************************************************************)
(* Mutation.                                                               *)
(***************************************************************************)
\* setCellVal with the upper test on val written val > 10.
setCellVal_TenAllowed(b, row, col, val) ==
    IF b = NULL \/ row < 0 \/ row >= BOARDSIZE
                \/ col < 0 \/ col >= BOARDSIZE
                \/ val < 1 \/ val > 10
    THEN b
    ELSE LET cell == getCell(row, col, b)
         IN  IF cell = NULL THEN b
             ELSE [b EXCEPT ![cell[1]][cell[2]].value = val]

\* setCellVal with the lower test on val written val < 0.
setCellVal_ZeroAllowed(b, row, col, val) ==
    IF b = NULL \/ row < 0 \/ row >= BOARDSIZE
                \/ col < 0 \/ col >= BOARDSIZE
                \/ val < 0 \/ val > 9
    THEN b
    ELSE LET cell == getCell(row, col, b)
         IN  IF cell = NULL THEN b
             ELSE [b EXCEPT ![cell[1]][cell[2]].value = val]

\* setCellVal without the tests on val.
setCellVal_AnyVal(b, row, col, val) ==
    IF b = NULL \/ row < 0 \/ row >= BOARDSIZE
                \/ col < 0 \/ col >= BOARDSIZE
    THEN b
    ELSE LET cell == getCell(row, col, b)
         IN  IF cell = NULL THEN b
             ELSE [b EXCEPT ![cell[1]][cell[2]].value = val]

\* setCellVal refusing to overwrite a clue.
setCellVal_CluesKept(b, row, col, val) ==
    IF b = NULL \/ row < 0 \/ row >= BOARDSIZE
                \/ col < 0 \/ col >= BOARDSIZE
                \/ val < 1 \/ val > 9
    THEN b
    ELSE LET cell == getCell(row, col, b)
         IN  IF cell = NULL \/ Deref(b, cell).clue THEN b
             ELSE [b EXCEPT ![cell[1]][cell[2]].value = val]

setCellVal(b, row, col, val) ==
    IF b = NULL \/ row < 0 \/ row >= BOARDSIZE
                \/ col < 0 \/ col >= BOARDSIZE
                \/ val < 1 \/ val > 9
    THEN b
    ELSE LET cell == getCell(row, col, b)
         IN  IF cell = NULL THEN b
             ELSE [b EXCEPT ![cell[1]][cell[2]].value = val]

(***************************************************************************)
(* Legality.                                                               *)
(***************************************************************************)
\* isLegalRow with the inner scan starting at col = i + 2: equal neighbours
\* are missed.
isLegalRow_SkipNeighbour(b, row) ==
    IF b = NULL \/ row < 0 \/ row >= BOARDSIZE THEN FALSE
    ELSE ~ \E i \in 0 .. (BOARDSIZE - 1) :
             LET num == Deref(b, getCell(row, i, b)).value
             IN  /\ num # 0
                 /\ \E col \in (i + 2) .. (BOARDSIZE - 1) :
                      LET checkNum == Deref(b, getCell(row, col, b)).value
                      IN  checkNum # 0 /\ num = checkNum

\* The loops return false at the first pair (i, col) with col > i holding
\* equal non-zero values.
isLegalRow(b, row) ==
    IF b = NULL \/ row < 0 \/ row >= BOARDSIZE THEN FALSE
    ELSE ~ \E i \in 0 .. (BOARDSIZE - 1) :
             LET num == Deref(b, getCell(row, i, b)).value
             IN  /\ num # 0
                 /\ \E col \in (i + 1) .. (BOARDSIZE - 1) :
                      LET checkNum == Deref(b, getCell(row, col, b)).value
                      IN  checkNum # 0 /\ num = checkNum

\* isLegalCol without the test that skips empty cells: two empty cells of a
\* column count as a repeat.
isLegalCol_ZerosCompared(b, col) ==
    IF b = NULL \/ col < 0 \/ col >= BOARDSIZE THEN FALSE
    ELSE ~ \E i \in 0 .. (BOARDSIZE - 1) :
             LET num == Deref(b, getCell(i, col, b)).value
             IN  \E row \in (i + 1) .. (BOARDSIZE - 1) :
                   LET checkNum == Deref(b, getCell(row, col, b)).value
                   IN  num = checkNum

\* "return NULL" in a function returning bool yields false.
isLegalCol(b, col) ==
    IF b = NULL \/ col < 0 \/ col >= BOARDSIZE THEN FALSE
    ELSE ~ \E i \in 0 .. (BOARDSIZE - 1) :
             LET num == Deref(b, getCell(i, col, b)).value
             IN  /\ num # 0
                 /\ \E row \in (i + 1) .. (BOARDSIZE - 1) :
                      LET checkNum == Deref(b, getCell(row, col, b)).value
                      IN  checkNum # 0 /\ num = checkNum

\* num is read from the cell (row, col) given as argument at every (i, j),
\* and the inner scan starts at (i, j) itself.
isLegalSquare(b, row, col) ==
    IF b = NULL \/ row < 0 \/ row >= BOARDSIZE
                \/ col < 0 \/ col >= BOARDSIZE
    THEN FALSE
    ELSE LET refRow == row - (row % 3)
             refCol == col - (col % 3)
             maxRow == refRow + 3
             maxCol == refCol + 3
         IN  ~ \E i \in refRow .. (maxRow - 1) :
                 \E j \in refCol .. (maxCol - 1) :
                   LET num == Deref(b, getCell(row, col, b)).value
                   IN  /\ num # 0
                       /\ \E sRow \in i .. (maxRow - 1) :
                            \E sCol \in j .. (maxCol - 1) :
                              LET checkNum ==
                                    Deref(b, getCell(sRow, sCol, b)).value
                              IN  checkNum # 0 /\ num = checkNum

isLegalCell(b, row, col) ==
    IF b = NULL \/ row < 0 \/ row >= BOARDSIZE
                \/ col < 0 \/ col >= BOARDSIZE
    THEN FALSE
    ELSE IF ~ (isLegalCol(b, col) \/ isLegalRow(b, row)
                                  \/ isLegalSquare(b, row, col))
    THEN FALSE
    ELSE TRUE

checkBoard(b) ==
    IF b = NULL THEN [ret |-> FALSE, stderr |-> ErrNotInitialized]
    ELSE IF \E index \in 0 .. (BOARDSIZE - 1) :
              ~ isLegalRow(b, index) \/ ~ isLegalCol(b, index)
    THEN [ret |-> FALSE, stderr |-> NoOutput]
    ELSE IF \E row \in {0, 3, 6} : \E col \in {0, 3, 6} :
              ~ isLegalSquare(b, row, col)
    THEN [ret |-> FALSE, stderr |-> NoOutput]
    ELSE [ret |-> TRUE, stderr |-> NoOutput]

\* isCompleteBoard is declared in sudokuBoard.h and called by main; its
\* body is not part of the sources.  It is taken as documented: false for
\* an absent board or as soon as a cell holding 0 is met, true otherwise.
isCompleteBoard(b) ==
    IF b = NULL THEN FALSE
    ELSE ~ \E row \in 0 .. (BOARDSIZE - 1) :
             \E col \in 0 .. (BOARDSIZE - 1) :
               Deref(b, getCell(row, col, b)).value = 0

(***************************************************************************)
(* The state machine: a client that builds one board and then calls the    *)
(* operations on it.  last records the call just made (ret is the boolean  *)
(* result of a legality function, FALSE for the other operations) and old  *)
(* the board before that call.  pc and stillPlaying belong to main and are  *)
(* left alone by this client.                                              *)
(***************************************************************************)
Call(op, row, col, val, ret) ==
    [op |-> op, row |-> row, col |-> col, val |-> val, ret |-> ret]

Init ==
    /\ board = NULL
    /\ clues = << >>
    /\ stderr = NoOutput
    /\ last = Call("none", 0, 0, 0, FALSE)
    /\ old = NULL
    /\ moves = 0
    /\ pc = "start"
    /\ stillPlaying = TRUE

DoInitBoard ==
    /\ last.op = "none"
    /\ board' = initBoard
    /\ stderr' = NoOutput
    /\ last' = Call("initBoard", 0, 0, 0, FALSE)
    /\ old' = board
    /\ UNCHANGED << clues, moves, pc, stillPlaying >>

DoInitSetBoard ==
    /\ last.op = "none"
    /\ \E str \in ClueStrings, junk \in JunkBytes, cellVal0 \in JunkInts :
         LET r == initSetBoard(str, junk, cellVal0)
         IN  /\ clues' = str
             /\ board' = r.ret
             /\ stderr' = r.stderr
    /\ last' = Call("initSetBoard", 0, 0, 0, FALSE)
    /\ old' = board
    /\ UNCHANGED << moves, pc, stillPlaying >>

DoSetCellVal ==
    /\ last.op # "none"
    /\ moves < MaxMoves
    /\ \E row \in Coords, col \in Coords, val \in Vals :
         /\ board' = setCellVal(board, row, col, val)
         /\ last' = Call("setCellVal", row, col, val, FALSE)
    /\ stderr' = NoOutput
    /\ old' = board
    /\ moves' = moves + 1
    /\ UNCHANGED << clues, pc, stillPlaying >>

DoIsLegalRow ==
    /\ last.op # "none"
    /\ \E row \in Coords :
         last' = Call("isLegalRow", row, 0, 0, isLegalRow(board, row))
    /\ stderr' = NoOutput
    /\ old' = board
    /\ UNCHANGED << board, clues, moves, pc, stillPlaying >>

DoIsLegalCol ==
    /\ last.op # "none"
    /\ \E col \in Coords :
         last' = Call("isLegalCol", 0, col, 0, isLegalCol(board, col))
    /\ stderr' = NoOutput
    /\ old' = board
    /\ UNCHANGED << board, clues, moves, pc, stillPlaying >>

DoIsLegalSquare ==
    /\ last.op # "none"
    /\ \E row \in Coords, col \in Coords :
         last' = Call("isLegalSquare", row, col, 0,
                      isLegalSquare(board, row, col))
    /\ stderr' = NoOutput
    /\ old' = board
    /\ UNCHANGED << board, clues, moves, pc, stillPlaying >>

DoIsLegalCell ==
    /\ last.op # "none"
    /\ \E row \in Coords, col \in Coords :
         last' = Call("isLegalCell", row, col, 0,
                      isLegalCell(board, row, col))
    /\ stderr' = NoOutput
    /\ old' = board
    /\ UNCHANGED << board, clues, moves, pc, stillPlaying >>

DoCheckBoard ==
    /\ last.op # "none"
    /\ LET r == checkBoard(board)
       IN  /\ last' = Call("checkBoard", 0, 0, 0, r.ret)
           /\ stderr' = r.stderr
    /\ old' = board
    /\ UNCHANGED << board, clues, moves, pc, stillPlaying >>

DoIsCompleteBoard ==
    /\ last.op # "none"
    /\ last' = Call("isCompleteBoard", 0, 0, 0, isCompleteBoard(board))
    /\ stderr' = NoOutput
    /\ old' = board
    /\ UNCHANGED << board, clues, moves, pc, stillPlaying >>

Next ==
    \/ DoInitBoard
    \/ DoInitSetBoard
    \/ DoSetCellVal
    \/ DoIsLegalRow
    \/ DoIsLegalCol
    \/ DoIsLegalSquare
    \/ DoIsLegalCell
    \/ DoCheckBoard
    \/ DoIsCompleteBoard

Spec == Init /\ [][Next]_vars

(***************************************************************************)
(* main of boardTest.c: the inputs are checked, the board is built from    *)
(* the clue string and the play loop makes one move per round until        *)
(* stillPlaying is false.                                                  *)
(***************************************************************************)
\* The number of rounds of the play loop explored.
MaxRounds == 2

\* A solved grid: row r is the digits 1..9 rotated by 3*r + r/3.
Solved == [i \in 1 .. 81 |->
             49 + ((3 * ((i - 1) \div 9) + ((i - 1) \div 9) \div 3
                      + ((i - 1) % 9)) % 9)]

\* The command-line arguments given to main: the solved grid, the solved
\* grid less its cell (0,8), less its cells (0,8) and (8,1), the empty
\* puzzle, and strings checkInputs refuses.
PlayClues ==
    { Solved,
      Poke(Solved, 8, 48),
      Poke(Poke(Solved, 8, 48), 73, 48),
      Zeros81,
      MkStr(80, 1, 0),
      Poke(Zeros81, 80, 47) }

\* The exit status checkInputs ends the process with, 0 when it returns.
checkInputs(argc, clueStr) ==
    IF argc # 2 THEN 1
    ELSE IF strlen(clueStr) # 81 THEN 2
    ELSE IF NonDigits(clueStr) # {} THEN 3
    ELSE 0

MainStart ==
    /\ pc = "start"
    /\ \E argc \in {1, 2}, str \in PlayClues,
          junk \in JunkBytes, cellVal0 \in JunkInts :
         LET status == checkInputs(argc, str)
             r == initSetBoard(str, junk, cellVal0)
         IN  IF status # 0
             THEN /\ pc' = "exit"
                  /\ last' = Call("exit", 0, 0, status, FALSE)
                  /\ UNCHANGED << board, clues, stderr >>
             ELSE /\ pc' = "loop"
                  /\ last' = Call("initSetBoard", 0, 0, 0, FALSE)
                  /\ clues' = str
                  /\ board' = r.ret
                  /\ stderr' = r.stderr
    /\ stillPlaying' = TRUE
    /\ old' = board
    /\ UNCHANGED moves

\* One round of the loop: the move read by scanf is made, and the loop is
\* left when checkBoard and isCompleteBoard are both true; main then
\* computes legal = checkBoard(board), recorded as the result of the call.
MainRound ==
    /\ pc = "loop"
    /\ stillPlaying
    /\ moves < MaxRounds
    /\ \E row \in Coords, col \in Coords, val \in Vals :
         LET b == setCellVal(board, row, col, val)
             stop == checkBoard(b).ret /\ isCompleteBoard(b)
         IN  /\ board' = b
             /\ stillPlaying' = ~ stop
             /\ pc' = IF stop THEN "done" ELSE "loop"
             /\ last' = Call("setCellVal", row, col, val,
                             IF stop THEN checkBoard(b).ret ELSE FALSE)
             /\ stderr' = checkBoard(b).stderr
    /\ old' = board
    /\ moves' = moves + 1
    /\ UNCHANGED clues

NextMain ==
    \/ MainStart
    \/ MainRound

SpecMain == Init /\ [][NextMain]_vars

TypeOK ==
    /\ board # NULL =>
         \A r \in Idx : \A c \in Idx :
           board[r][c].value \in 0 .. 9 /\ board[r][c].clue \in BOOLEAN
    /\ moves \in 0 .. (IF pc = "start" THEN MaxMoves ELSE MaxRounds)
    /\ pc \in {"start", "loop", "done", "exit"}
    /\ stillPlaying \in BOOLEAN

(***************************************************************************)
(* What the legality functions are meant to decide.                        *)
(***************************************************************************)
\* Two distinct columns of row r hold the same non-zero value.
RowRepeats(b, r) ==
    \E c1 \in Idx : \E c2 \in Idx :
      c1 # c2 /\ b[r][c1].value # 0 /\ b[r][c1].value = b[r][c2].value

\* Two distinct rows of column c hold the same non-zero value.
ColRepeats(b, c) ==
    \E r1 \in Idx : \E r2 \in Idx :
      r1 # r2 /\ b[r1][c].value # 0 /\ b[r1][c].value = b[r2][c].value

\* The cells of the 3x3 box containing (r, c).
BoxOf(r, c) ==
    { p \in Idx \X Idx : /\ p[1] - (p[1] % 3) = r - (r % 3)
                         /\ p[2] - (p[2] % 3) = c - (c % 3) }

\* Two distinct cells of the box containing (r, c) hold the same non-zero
\* value.
BoxRepeats(b, r, c) ==
    \E p \in BoxOf(r, c) : \E q \in BoxOf(r, c) :
      p # q /\ b[p[1]][p[2]].value # 0
            /\ b[p[1]][p[2]].value = b[q[1]][q[2]].value

NoRepeats(b) ==
    /\ \A r \in Idx : ~ RowRepeats(b, r)
    /\ \A c \in Idx : ~ ColRepeats(b, c)
    /\ \A r \in {0, 3, 6} : \A c \in {0, 3, 6} : ~ BoxRepeats(b, r, c)

InRange(x) == x \in Idx

(***************************************************************************)
(* Whole-board legality.                                                   *)
(***************************************************************************)
\* C1: for a non-absent board, checkBoard returns true if and only if no
\* row, no column and no 3x3 box holds the same non-zero value at two
\* distinct positions.
C1_CheckBoardIffNoRepeats ==
    (last.op = "checkBoard" /\ board # NULL)
        => (last.ret = NoRepeats(board))

(***************************************************************************)
(* Box legality.                                                           *)
(***************************************************************************)
\* C2: for a non-absent board and (row, col) in range, isLegalSquare returns
\* false if and only if the box containing (row, col) holds the same
\* non-zero value at two distinct positions.
C2_SquareFalseIffBoxRepeats ==
    (last.op = "isLegalSquare" /\ board # NULL
        /\ InRange(last.row) /\ InRange(last.col))
        => (last.ret = ~ BoxRepeats(board, last.row, last.col))

\* C3: isLegalSquare returns the same result whichever cell of a box it is
\* given.
C3_SquareSameForEveryCellOfBox ==
    (last.op = "isLegalSquare" /\ board # NULL
        /\ InRange(last.row) /\ InRange(last.col))
        => \A p \in BoxOf(last.row, last.col) :
             isLegalSquare(board, p[1], p[2]) = last.ret

(***************************************************************************)
(* Cell legality.                                                          *)
(***************************************************************************)
\* C4: isLegalCell returns true only if the board is present, the
\* coordinates are in range and isLegalRow, isLegalCol and isLegalSquare
\* are all three true for the cell.
C4_CellTrueOnlyIfAllThreeLegal ==
    (last.op = "isLegalCell" /\ last.ret)
        => /\ board # NULL
           /\ InRange(last.row) /\ InRange(last.col)
           /\ isLegalRow(board, last.row)
           /\ isLegalCol(board, last.col)
           /\ isLegalSquare(board, last.row, last.col)

(***************************************************************************)
(* Row and column legality.                                                *)
(***************************************************************************)
\* C5: isLegalRow returns true exactly when the board is present, the row
\* index is in 0..8 and no two distinct columns of that row hold the same
\* non-zero value; the other rows do not matter.
C5_RowLegality ==
    last.op = "isLegalRow"
        => (last.ret = (/\ board # NULL
                        /\ InRange(last.row)
                        /\ ~ RowRepeats(board, last.row)))

\* A row reported legal although another row of the board has a repeat.
C5_Witness ==
    /\ last.op = "isLegalRow"
    /\ last.ret
    /\ \E r \in Idx : RowRepeats(board, r) /\ ~ isLegalRow(board, r)

\* C6: isLegalCol returns true exactly when the board is present, the column
\* index is in 0..8 and no two distinct rows of that column hold the same
\* non-zero value.
C6_ColLegality ==
    last.op = "isLegalCol"
        => (last.ret = (/\ board # NULL
                        /\ InRange(last.col)
                        /\ ~ ColRepeats(board, last.col)))

\* A column reported illegal on a board that also has a column without
\* repeats.
C6_Witness ==
    /\ last.op = "isLegalCol"
    /\ board # NULL
    /\ InRange(last.col)
    /\ ~ last.ret
    /\ \E c \in Idx : ~ ColRepeats(board, c)

(***************************************************************************)
(* Construction from a clue string.                                        *)
(***************************************************************************)
AllDigits(str) == \A i \in 1 .. Len(str) : str[i] \in 48 .. 57

\* C7: for a string of exactly 81 decimal digits initSetBoard returns a
\* board, and the cell at (i / 9, i % 9) holds the digit at index i as a
\* number and is a clue exactly when that digit is not '0'.
C7_RoundTrip ==
    (last.op = "initSetBoard" /\ Len(clues) = 81 /\ AllDigits(clues))
        => /\ board # NULL
           /\ \A i \in 0 .. 80 :
                LET cell == Deref(board, getCell(i \div 9, i % 9, board))
                IN  /\ cell.value = clues[i + 1] - 48
                    /\ cell.clue = (clues[i + 1] # 48)

\* A board built from a string holding both zeros and other digits.
C7_Witness ==
    /\ last.op = "initSetBoard"
    /\ board # NULL
    /\ \E i \in 1 .. 81 : clues[i] = 48
    /\ \E i \in 1 .. 81 : clues[i] # 48

\* The first character of str that is not a decimal digit.
FirstBadChar(str) ==
    str[CHOOSE i \in 1 .. Len(str) :
          /\ str[i] \notin 48 .. 57
          /\ \A j \in 1 .. (i - 1) : str[j] \in 48 .. 57]

\* What initSetBoard hands back to its caller for str.
Returned(str) == initSetBoard(str, 0, 0).ret

\* C8 as stated: a wrong length fails as InvalidLength whatever the
\* characters, 81 characters with a non-digit fail as InvalidCharacter naming
\* the first non-digit, the caller can tell the two failures apart by what
\* it is handed back, and a board is returned only when both checks pass.
C8_FailuresDistinguishable ==
    last.op = "initSetBoard"
        => /\ Len(clues) # 81
                => /\ board = NULL
                   /\ stderr = ErrInvalidClues
                   /\ \A str \in BadCharClues : Returned(str) # board
           /\ (Len(clues) = 81 /\ ~ AllDigits(clues))
                => /\ board = NULL
                   /\ stderr = ErrNonNumeric(FirstBadChar(clues))
           /\ board # NULL => (Len(clues) = 81 /\ AllDigits(clues))

\* C8 amended: a wrong length is diagnosed as an invalid clues string
\* whatever the characters, 81 characters with a non-digit are diagnosed
\* with the first non-digit; both failures hand NULL back to the caller and
\* differ only in the diagnostic written to the error stream; a board is
\* returned only when both checks pass.
C8_ValidationOrder ==
    last.op = "initSetBoard"
        => /\ Len(clues) # 81
                => /\ board = NULL
                   /\ stderr = ErrInvalidClues
           /\ (Len(clues) = 81 /\ ~ AllDigits(clues))
                => /\ board = NULL
                   /\ stderr = ErrNonNumeric(FirstBadChar(clues))
                   /\ stderr # ErrInvalidClues
           /\ board # NULL => (Len(clues) = 81 /\ AllDigits(clues))

\* A refused string of 81 characters with two different non-digits.
C8_Witness ==
    /\ last.op = "initSetBoard"
    /\ board = NULL
    /\ Len(clues) = 81
    /\ \E i \in 1 .. 81 : \E j \in 1 .. 81 :
         /\ i < j
         /\ clues[i] \notin 48 .. 57
         /\ clues[j] \notin 48 .. 57
         /\ clues[i] # clues[j]

(***************************************************************************)
(* Mutation.                                                               *)
(***************************************************************************)
ValidMove(c) == InRange(c.row) /\ InRange(c.col) /\ c.val \in 1 .. 9

\* C9: setCellVal with row or col outside 0..8 or val outside 1..9 leaves
\* the value and the clue flag of every cell as they were and signals no
\* error.
C9_InvalidMoveIsNoOp ==
    (last.op = "setCellVal" /\ ~ ValidMove(last))
        => /\ board = old
           /\ stderr = NoOutput

\* A refused call on a board that holds clues.
C9_Witness ==
    /\ last.op = "setCellVal"
    /\ ~ ValidMove(last)
    /\ board # NULL
    /\ \E r \in Idx : \E c \in Idx : board[r][c].clue

\* C10: on a board, setCellVal with row and col in 0..8 and val in 1..9
\* stores val in the target cell, clue or not, leaves the value of the 80
\* other cells unchanged and leaves every clue flag unchanged.
C10_ValidMoveTakesEffect ==
    (last.op = "setCellVal" /\ ValidMove(last) /\ old # NULL)
        => /\ board # NULL
           /\ Deref(board, getCell(last.row, last.col, board)).value = last.val
           /\ \A r \in Idx : \A c \in Idx :
                /\ (<< r, c >> # << last.row, last.col >>)
                     => board[r][c].value = old[r][c].value
                /\ board[r][c].clue = old[r][c].clue

\* A clue overwritten with a different value.
C10_Witness ==
    /\ last.op = "setCellVal"
    /\ ValidMove(last)
    /\ old # NULL
    /\ old[last.row][last.col].clue
    /\ old[last.row][last.col].value # last.val

(***************************************************************************)
(* Completeness.                                                           *)
(***************************************************************************)
\* The cells of b that hold 0.
EmptyCells(b) == { p \in Idx \X Idx : b[p[1]][p[2]].value = 0 }

\* C11: isCompleteBoard returns true exactly when the board is present and
\* none of its 81 cells holds 0; it is false for the board just made by
\* initBoard and for the board just parsed from 81 '0' characters.
C11_CompleteIffNoEmptyCell ==
    last.op = "isCompleteBoard"
        => /\ last.ret = (board # NULL /\ Cardinality(EmptyCells(board)) = 0)
           /\ (board # NULL /\ moves = 0 /\ clues \in {<< >>, Zeros81})
                => ~ last.ret

\* A board without an empty cell reported complete.
C11_Witness ==
    /\ last.op = "isCompleteBoard"
    /\ last.ret
    /\ board # NULL
    /\ \A r \in Idx : \A c \in Idx : board[r][c].value \in 1 .. 9

(***************************************************************************)
(* Invariants of the board.                                                *)
(***************************************************************************)
\* C12: once built by initBoard or by initSetBoard, and whatever setCellVal
\* calls follow, the board has exactly 9 rows of 9 cells and every cell
\* value is in 0..9.
C12_ValueRange ==
    board # NULL
        => /\ DOMAIN board = 0 .. 8
           /\ \A r \in 0 .. 8 :
                /\ DOMAIN board[r] = 0 .. 8
                /\ \A c \in 0 .. 8 : board[r][c].value \in 0 .. 9

\* A call on a built board, aimed at one of its cells, with a value above 9.
C12_Witness ==
    /\ last.op = "setCellVal"
    /\ old # NULL
    /\ InRange(last.row) /\ InRange(last.col)
    /\ last.val > 9

(***************************************************************************)
(* The play loop.                                                          *)
(***************************************************************************)
\* C13: after each move of the play loop, the loop has stopped exactly when
\* the board has no empty cell and no repeated non-zero value in any row,
\* column or 3x3 box; so it ends once the grid is correctly solved and
\* never ends on an unsolved or illegal board.
C13_LoopStopsIffSolved ==
    (pc \in {"loop", "done"} /\ last.op = "setCellVal")
        => ((~ stillPlaying) = (EmptyCells(board) = {} /\ NoRepeats(board)))

(***************************************************************************)
(* Cells are never emptied.                                                *)
(***************************************************************************)
\* C14: once the board is built no call empties a cell: across every call
\* (old is the board before it) the board stays and the set of its empty
\* cells only shrinks, and every cell with the clue flag holds a non-zero
\* value.
C14_NeverEmptied ==
    /\ board # NULL =>
         \A r \in Idx : \A c \in Idx :
           board[r][c].clue => board[r][c].value # 0
    /\ old # NULL =>
         /\ board # NULL
         /\ EmptyCells(board) \subseteq EmptyCells(old)

\* A call asking to store 0 in a cell that holds a non-zero value.
C14_Witness ==
    /\ last.op = "setCellVal"
    /\ old # NULL
    /\ InRange(last.row) /\ InRange(last.col)
    /\ last.val = 0
    /\ old[last.row][last.col].value # 0
====
